---- MODULE Spec2Model ----
(***************************************************************************)
(* Model of spikra-smartagent's app.py: the POST /run handler run_agent,   *)
(* the offline strategy (mock) and the model-backed strategy (openai).     *)
(*                                                                         *)
(* A Python str is a sequence of one-character strings.  None is the       *)
(* one-element sequence <<"None">>, which no str equals, because every     *)
(* element of a str has length one.  Times are whole milliseconds, the     *)
(* resolution round(x, 3) keeps.                                           *)
(***************************************************************************)
EXTENDS Integers, Sequences, FiniteSets, TLC

\* ------------------------------------------------------------------ bounds
\* Most lines a modelled input file holds after its header.
MaxLines == 2
\* Most fragments concatenated into an interest string handed to mock_classify.
MaxFrags == 3
\* Most whitespace characters put before and after a ticket body.
MaxPad == 1
\* How far around SummaryLimit the modelled ticket bodies' lengths range.
Slack == 1

\* --------------------------------------------------------- program constants
\* mock_summarize keeps t[:120] and tests len(t) > 120.
SummaryLimit == 120
\* max_tokens of the three requests.
ClassifyMaxTokens == 6
FollowupMaxTokens == 150
SummarizeMaxTokens == 60
\* HTTPException(status_code=400, ...)
NotFoundStatus == 400

\* ------------------------------------------------------------ Python values
None == << "None" >>
EmptyStr == << >>

LowerCase == <<"a","b","c","d","e","f","g","h","i","j","k","l","m",
               "n","o","p","q","r","s","t","u","v","w","x","y","z">>
UpperCase == <<"A","B","C","D","E","F","G","H","I","J","K","L","M",
               "N","O","P","Q","R","S","T","U","V","W","X","Y","Z">>

\* The characters str.strip() and str.split() treat as whitespace.
Whitespace == {" ", "\t", "\n", "\r"}

\* str.lower() / str.upper() of one character.
LowerChar(c) ==
    IF \E i \in 1..26 : UpperCase[i] = c
    THEN LowerCase[CHOOSE i \in 1..26 : UpperCase[i] = c]
    ELSE c

UpperChar(c) ==
    IF \E i \in 1..26 : LowerCase[i] = c
    THEN UpperCase[CHOOSE i \in 1..26 : LowerCase[i] = c]
    ELSE c

\* s.lower()
Lower(s) == [i \in 1..Len(s) |-> LowerChar(s[i])]

\* s.capitalize(): first character upper-cased, the rest lower-cased.
Capitalize(s) ==
    [i \in 1..Len(s) |-> IF i = 1 THEN UpperChar(s[i]) ELSE LowerChar(s[i])]

\* s.strip(): leading and trailing whitespace removed.
Strip(s) ==
    LET keep == {i \in 1..Len(s) : s[i] \notin Whitespace}
    IN  IF keep = {} THEN EmptyStr
        ELSE LET lo == CHOOSE i \in keep : \A j \in keep : i <= j
                 hi == CHOOSE i \in keep : \A j \in keep : j <= i
             IN  SubSeq(s, lo, hi)

\* s.split(): the maximal runs of non-whitespace characters, in order.
RECURSIVE Split(_)
Split(s) ==
    IF s = EmptyStr THEN << >>
    ELSE IF s[1] \in Whitespace THEN Split(Tail(s))
    ELSE LET stops == {i \in 1..Len(s) : s[i] \in Whitespace}
             end == IF stops = {} THEN Len(s) + 1
                    ELSE CHOOSE i \in stops : \A j \in stops : i <= j
         IN  <<SubSeq(s, 1, end - 1)>> \o Split(SubSeq(s, end, Len(s)))

\* sub in s
Contains(s, sub) ==
    \E i \in 1..(Len(s) - Len(sub) + 1) : SubSeq(s, i, i + Len(sub) - 1) = sub

\* str(v), and the formatting of v inside an f-string.
Str(v) == IF v = None THEN <<"N","o","n","e">> ELSE v

\* s[:n]
Slice(s, n) == SubSeq(s, 1, IF Len(s) < n THEN Len(s) ELSE n)

\* p is a prefix of s.
IsPrefix(p, s) == Len(p) <= Len(s) /\ SubSeq(s, 1, Len(p)) = p

Hot == <<"H","o","t">>
Warm == <<"W","a","r","m">>
Cold == <<"C","o","l","d">>
Categories == {Hot, Warm, Cold}
HotWarm == {Hot, Warm}
Ellipsis == <<".",".",".">>

\* ------------------------------------------------- mock implementations
\* lead.get(k, ""): a lead dict always holds the six keys.
LeadGet(lead, k) == IF k \in DOMAIN lead THEN lead[k] ELSE EmptyStr

\* The classifier with the two tests exchanged.
mock_classify_swapped(lead) ==
    LET it == Lower(Str(LeadGet(lead, "interest")))
    IN  IF Contains(it, <<"m","e","d","i","u","m">>) \/ Contains(it, <<"m","e","d">>)
        THEN Warm
        ELSE IF Contains(it, <<"h","i","g","h">>) THEN Hot
        ELSE Cold

mock_classify(lead) ==
    LET it == Lower(Str(LeadGet(lead, "interest")))
    IN  IF Contains(it, <<"h","i","g","h">>) THEN Hot
        ELSE IF Contains(it, <<"m","e","d","i","u","m">>) \/ Contains(it, <<"m","e","d">>)
        THEN Warm
        ELSE Cold

mock_followup(lead) ==
    <<"H","i"," ">> \o Str(LeadGet(lead, "name"))
    \o <<","," ","t","h","a","n","k","s"," ","f","o","r"," ","y","o","u","r"," ",
         "i","n","t","e","r","e","s","t"," ","i","n"," ">>
    \o Str(LeadGet(lead, "company"))
    \o <<"."," ","I","'","d"," ","b","e"," ","h","a","p","p","y"," ","t","o"," ",
         "s","c","h","e","d","u","l","e"," ","a"," ","q","u","i","c","k"," ",
         "c","a","l","l"," ","t","o"," ","d","i","s","c","u","s","s"," ",
         "n","e","x","t"," ","s","t","e","p","s",".">>

\* The summary cut one character late.
mock_summarize_long(lead) ==
    LET t == Strip(Str(LeadGet(lead, "ticket")))
    IN  IF t # EmptyStr
        THEN Slice(t, SummaryLimit + 1)
             \o (IF Len(t) > SummaryLimit THEN Ellipsis ELSE EmptyStr)
        ELSE EmptyStr

\* The summary of the ticket as it stands, whitespace kept.
mock_summarize_nostrip(lead) ==
    LET t == Str(LeadGet(lead, "ticket"))
    IN  IF t # EmptyStr
        THEN Slice(t, SummaryLimit)
             \o (IF Len(t) > SummaryLimit THEN Ellipsis ELSE EmptyStr)
        ELSE EmptyStr

mock_summarize(lead) ==
    LET t == Strip(Str(LeadGet(lead, "ticket")))
    IN  IF t # EmptyStr
        THEN Slice(t, SummaryLimit)
             \o (IF Len(t) > SummaryLimit THEN Ellipsis ELSE EmptyStr)
        ELSE EmptyStr

\* --------------------------------------------------- results of a call
\* What a function call ends in: a returned value or a raised exception.
Return(v) == [ok |-> TRUE, value |-> v, exc |-> "", msg |-> ""]
Raise(type, msg) == [ok |-> FALSE, value |-> EmptyStr, exc |-> type, msg |-> msg]

\* client.chat.completions.create(...): a completion text, or a raised
\* transport / quota / API error.
ServiceRaised == [raised |-> TRUE, content |-> EmptyStr]
Completion(c) == [raised |-> FALSE, content |-> c]
ServiceError == Raise("RateLimitError", "insufficient_quota")

\* ------------------------------------------------- model-backed strategy
\* reply is what the request of lines 63-68 ended in.
openai_classify(lead, reply) ==
    IF reply.raised THEN ServiceError
    ELSE LET words == Split(Strip(reply.content))
         IN  IF words = << >> THEN Raise("IndexError", "list index out of range")
             ELSE LET text == Capitalize(words[1])
                  IN  IF text \in Categories THEN Return(text)
                      ELSE Return(mock_classify(lead))

openai_followup(lead, reply) ==
    IF reply.raised THEN ServiceError ELSE Return(Strip(reply.content))

openai_summarize(lead, reply) ==
    IF reply.raised THEN ServiceError ELSE Return(Strip(reply.content))

\* The test of line 129 made on the ticket as it stands.
TicketUnstripped(lead) ==
    IF lead.ticket = None
    THEN Raise("AttributeError", "'NoneType' object has no attribute 'strip'")
    ELSE Return(lead.ticket)

\* lead["ticket"].strip(), the test of line 129: None has no strip.
TicketStripped(lead) ==
    IF lead.ticket = None
    THEN Raise("AttributeError", "'NoneType' object has no attribute 'strip'")
    ELSE Return(Strip(lead.ticket))

\* ------------------------------------------------------------ the reader
Columns == {"id", "name", "email", "company", "interest", "ticket"}

\* The key csv.DictReader files surplus cells under (restkey, None).
RestKey == "<restkey>"

\* One row of csv.DictReader(fh): the header's names zipped with the line's
\* cells; a name past the last cell maps to None (restval), surplus cells go
\* under restkey.
DictRow(header, cells) ==
    LET named == {header[i] : i \in 1..Len(header)}
        keys == IF Len(cells) > Len(header) THEN named \cup {RestKey} ELSE named
    IN  [k \in keys |->
            IF k = RestKey THEN SubSeq(cells, Len(header) + 1, Len(cells))
            ELSE LET i == CHOOSE j \in 1..Len(header) : header[j] = k
                 IN  IF i <= Len(cells) THEN cells[i] ELSE None]

\* The rows the reader yields: it skips the lines that hold no cell.
RECURSIVE DictReader(_, _)
DictReader(header, lines) ==
    IF lines = << >> THEN << >>
    ELSE IF Head(lines) = << >> THEN DictReader(header, Tail(lines))
    ELSE <<DictRow(header, Head(lines))>> \o DictReader(header, Tail(lines))

\* row.get(k, "")
RowGet(row, k) == IF k \in DOMAIN row THEN row[k] ELSE EmptyStr

\* The lead dict of lines 114-121.
MakeLead(row) ==
    [id |-> RowGet(row, "id"), name |-> RowGet(row, "name"),
     email |-> RowGet(row, "email"), company |-> RowGet(row, "company"),
     interest |-> RowGet(row, "interest"), ticket |-> RowGet(row, "ticket")]

\* ---------------------------------------------------------------- inputs
FullHeader == <<"id", "name", "email", "company", "interest", "ticket">>
\* A file whose header lacks the ticket column.
NoTicketHeader == <<"id", "name", "email", "company", "interest">>
HeaderChoices == {FullHeader, NoTicketHeader}

\* A ticket body of n characters, no two neighbours alike.
Body(n) == [i \in 1..n |-> <<"p","q","r">>[(i % 3) + 1]]
\* n whitespace characters.
Pad(n) == [i \in 1..n |-> IF i % 2 = 1 THEN " " ELSE "\n"]

Ana == <<"A","n","a">>
Mail == <<"a","@","b",".","c">>
Acme == <<"A","c","m","e">>
FirstCells == <<<<"7">>, Ana, Mail, Acme>>

\* The lines of the modelled files: a lead of each category, an empty, a
\* whitespace-only and a padded ticket, a line one cell short of the full
\* header, and a blank line.
LineChoices ==
    { FirstCells \o <<<<"h","i","g","h">>, EmptyStr>>,
      FirstCells \o <<<<"M","e","d","i","u","m">>, <<" ","n","o"," ","l","o","g","i","n"," ">>>>,
      FirstCells \o <<<<"l","o","w">>, <<" ">>>>,
      FirstCells \o <<<<"m","e","d">>>>,
      << >> }

\* The completions the text-generation service is modelled to return.
ClassifyCompletions == {<<" ","w","a","r","m","\n">>, <<"H","o","t",".">>, EmptyStr}
FollowupCompletions == {<<" ","H","e","l","l","o"," ","A","n","a","."," ">>}
SummarizeCompletions == {<<"L","o","g","i","n"," ","f","a","i","l","s",".">>}
Replies(completions) == {ServiceRaised} \cup {Completion(c) : c \in completions}

\* time.time() - t0, in milliseconds.
LatencyChoices == {0, 1}

\* The interest strings handed to mock_classify on its own: up to MaxFrags
\* fragments, so that a keyword can appear whole, split, in either case, or
\* next to another keyword.
Fragments ==
    {<<"h","i">>, <<"g","h">>, <<"H","I","G","H">>, <<"m","e">>, <<"d">>, <<"M","e","d">>, <<"i","u","m">>, <<"l","o">>, <<" ">>}
RECURSIVE Concat(_)
Concat(ss) == IF ss = << >> THEN EmptyStr ELSE Head(ss) \o Concat(Tail(ss))
InterestStrings ==
    {Concat(fs) : fs \in UNION {[1..k -> Fragments] : k \in 0..MaxFrags}}

\* The ticket texts handed to mock_summarize on its own: bodies around the
\* empty text and around SummaryLimit, with and without surrounding
\* whitespace, with and without a literal "..." at the end.
BodyLengths == (0..Slack) \cup ((SummaryLimit - Slack)..(SummaryLimit + Slack))
TicketStrings ==
    {Pad(a) \o Body(b) \o e \o Pad(c) :
        a \in 0..MaxPad, b \in BodyLengths, e \in {EmptyStr, Ellipsis}, c \in 0..MaxPad}

BlankLead ==
    [id |-> EmptyStr, name |-> EmptyStr, email |-> EmptyStr,
     company |-> EmptyStr, interest |-> EmptyStr, ticket |-> EmptyStr]
UnitLeads ==
    {[BlankLead EXCEPT !.interest = s] : s \in InterestStrings \cup {None}}
    \cup {[BlankLead EXCEPT !.ticket = s] : s \in TicketStrings \cup {None}}

\* ----------------------------------------------------------------- state
VARIABLES
    USE_OPENAI,     \* line 9: the strategy, fixed for the process
    file_exists,    \* os.path.exists(csv_path)
    header,         \* the file's header line
    lines,          \* the file's lines after the header, each its cells
    pc,             \* where run_agent stands
    n,              \* rows the for loop has taken from the reader
    lead,           \* the current lead dict
    category,       \* run_agent's local
    followup,       \* run_agent's local
    results,        \* run_agent's list of items
    processed,
    errors,
    total_latency,
    calls,          \* the requests made to the text-generation service
    response,       \* what POST /run answered
    uin,            \* a lead handed to one mock function on its own
    ufn,            \* that function's name
    uout            \* what it returned

vars == <<USE_OPENAI, file_exists, header, lines, pc, n, lead, category,
          followup, results, processed, errors, total_latency, calls,
          response, uin, ufn, uout>>
env == <<USE_OPENAI, file_exists, header, lines>>
unit == <<uin, ufn, uout>>

NoResponse == [kind |-> "none"]
rows == DictReader(header, lines)

\* ----------------------------------------------------------- run_agent
\* lines 138-143 and 147
SuccessItem(l, c, f, t, latency) ==
    [lead |-> l, category |-> c, followup |-> f, ticket_summary |-> t,
     latency_sec |-> latency]

\* lines 146-147: str(e) and traceback.format_exc()
ErrorItem(l, e) ==
    [lead |-> l, error |-> e.msg,
     trace |-> <<"Traceback (most recent call last):", e.exc, e.msg>>]

\* The except branch ending the run instead of the lead.
FailAbort(e) ==
    /\ errors' = errors + 1
    /\ results' = Append(results, ErrorItem(lead, e))
    /\ pc' = "row"
    /\ n' = Len(rows)
    /\ UNCHANGED <<processed, total_latency>>

\* The except branch counting the lead and appending nothing.
FailDrop(e) ==
    /\ errors' = errors + 1
    /\ results' = results
    /\ pc' = "row"
    /\ UNCHANGED <<processed, total_latency, n>>

\* The except branch keeping what the try block had computed.
FailKeep(e) ==
    /\ errors' = errors + 1
    /\ results' = Append(results,
                     [lead |-> lead, category |-> category,
                      error |-> e.msg,
                      trace |-> <<"Traceback (most recent call last):", e.exc, e.msg>>])
    /\ pc' = "row"
    /\ UNCHANGED <<processed, total_latency, n>>

\* lines 144-147: the except branch, then results.append(item)
Fail(e) ==
    /\ errors' = errors + 1
    /\ results' = Append(results, ErrorItem(lead, e))
    /\ pc' = "row"
    /\ UNCHANGED <<processed, total_latency, n>>

\* The success branch putting the item at the front of the list.
SucceedFront(c, f, t) ==
    \E latency \in LatencyChoices :
        /\ total_latency' = total_latency + latency
        /\ processed' = processed + 1
        /\ results' = <<SuccessItem(lead, c, f, t, latency)>> \o results
        /\ pc' = "row"
        /\ UNCHANGED <<errors, n>>

\* lines 135-143 and 147: the end of the try block, then results.append(item)
Succeed(c, f, t) ==
    \E latency \in LatencyChoices :
        /\ total_latency' = total_latency + latency
        /\ processed' = processed + 1
        /\ results' = Append(results, SuccessItem(lead, c, f, t, latency))
        /\ pc' = "row"
        /\ UNCHANGED <<errors, n>>

\* lines 102-103
RunNotFound ==
    /\ pc = "start"
    /\ ~file_exists
    /\ response' = [kind |-> "error", status_code |-> NotFoundStatus]
    /\ pc' = "done"
    /\ UNCHANGED <<env, unit, n, lead, category, followup, results, processed,
                   errors, total_latency, calls>>

\* lines 105-112
RunOpen ==
    /\ pc = "start"
    /\ file_exists
    /\ results' = << >>
    /\ processed' = 0
    /\ errors' = 0
    /\ total_latency' = 0
    /\ pc' = "row"
    /\ UNCHANGED <<env, unit, n, lead, category, followup, calls, response>>

\* lines 113-123 and 125: the next row of the reader becomes the lead
NextRow ==
    /\ pc = "row"
    /\ n < Len(rows)
    /\ n' = n + 1
    /\ lead' = MakeLead(rows[n + 1])
    /\ pc' = IF USE_OPENAI THEN "classify" ELSE "mock"
    /\ UNCHANGED <<env, unit, category, followup, results, processed, errors,
                   total_latency, calls, response>>

\* lines 132-143 and 147
MockLead ==
    /\ pc = "mock"
    /\ category' = mock_classify(lead)
    /\ followup' = IF category' \in HotWarm THEN mock_followup(lead) ELSE EmptyStr
    /\ Succeed(category', followup', mock_summarize(lead))
    /\ UNCHANGED <<env, unit, lead, calls, response>>

Call(op, max_tokens, reply) ==
    [lead |-> n, op |-> op, max_tokens |-> max_tokens, reply |-> reply]

\* line 127
OpenaiClassify ==
    /\ pc = "classify"
    /\ \E reply \in Replies(ClassifyCompletions) :
        LET r == openai_classify(lead, reply)
        IN  /\ calls' = Append(calls, Call("classify", ClassifyMaxTokens, reply))
            /\ IF r.ok
               THEN /\ category' = r.value
                    /\ pc' = "followup"
                    /\ UNCHANGED <<results, processed, errors, total_latency, n>>
               ELSE /\ Fail(r)
                    /\ UNCHANGED category
    /\ UNCHANGED <<env, unit, lead, followup, response>>

\* line 128
OpenaiFollowup ==
    /\ pc = "followup"
    /\ \/ /\ category \in HotWarm
          /\ \E reply \in Replies(FollowupCompletions) :
              LET r == openai_followup(lead, reply)
              IN  /\ calls' = Append(calls, Call("followup", FollowupMaxTokens, reply))
                  /\ IF r.ok
                     THEN /\ followup' = r.value
                          /\ pc' = "summarize"
                          /\ UNCHANGED <<results, processed, errors, total_latency, n>>
                     ELSE /\ Fail(r)
                          /\ UNCHANGED followup
       \/ /\ category \notin HotWarm
          /\ followup' = EmptyStr
          /\ pc' = "summarize"
          /\ UNCHANGED <<results, processed, errors, total_latency, n, calls>>
    /\ UNCHANGED <<env, unit, lead, category, response>>

\* lines 129 and 135-143, 147
OpenaiSummarize ==
    /\ pc = "summarize"
    /\ LET t == TicketStripped(lead)
       IN  \/ /\ ~t.ok
              /\ Fail(t)
              /\ UNCHANGED calls
           \/ /\ t.ok
              /\ t.value # EmptyStr
              /\ \E reply \in Replies(SummarizeCompletions) :
                  LET r == openai_summarize(lead, reply)
                  IN  /\ calls' = Append(calls, Call("summarize", SummarizeMaxTokens, reply))
                      /\ IF r.ok
                         THEN Succeed(category, followup, r.value)
                         ELSE Fail(r)
           \/ /\ t.ok
              /\ t.value = EmptyStr
              /\ Succeed(category, followup, EmptyStr)
              /\ UNCHANGED calls
    /\ UNCHANGED <<env, unit, lead, category, followup, response>>

\* round(a / b, 3) of two millisecond counts: to the nearest, ties to even.
RoundDiv(a, b) ==
    LET q == a \div b
        r == a % b
    IN  IF 2 * r < b THEN q
        ELSE IF 2 * r > b THEN q + 1
        ELSE IF q % 2 = 0 THEN q ELSE q + 1

\* lines 149-154
Status(total_time) ==
    [processed |-> processed,
     errors |-> errors,
     avg_latency_sec |-> IF processed # 0 THEN RoundDiv(total_latency, processed) ELSE 0,
     total_time_sec |-> total_time]

\* lines 149-155: the reader is exhausted.  The run's wall-clock time is
\* modelled as the time spent inside the timed blocks.
RunReturn ==
    /\ pc = "row"
    /\ n = Len(rows)
    /\ response' = [kind |-> "ok", status |-> Status(total_latency),
                    results |-> results]
    /\ pc' = "done"
    /\ UNCHANGED <<env, unit, n, lead, category, followup, results, processed,
                   errors, total_latency, calls>>

run_agent ==
    \/ RunNotFound
    \/ RunOpen
    \/ NextRow
    \/ MockLead
    \/ OpenaiClassify
    \/ OpenaiFollowup
    \/ OpenaiSummarize
    \/ RunReturn

\* One request to POST /run, over any modelled file, under either strategy.
Init ==
    /\ USE_OPENAI \in BOOLEAN
    /\ file_exists \in BOOLEAN
    /\ header \in HeaderChoices
    /\ lines \in UNION {[1..k -> LineChoices] : k \in 0..MaxLines}
    /\ pc = "start"
    /\ n = 0
    /\ lead = BlankLead
    /\ category = EmptyStr
    /\ followup = EmptyStr
    /\ results = << >>
    /\ processed = 0
    /\ errors = 0
    /\ total_latency = 0
    /\ calls = << >>
    /\ response = NoResponse
    /\ uin = BlankLead
    /\ ufn = "none"
    /\ uout = EmptyStr

Next == run_agent

Spec == Init /\ [][Next]_vars

\* ------------------------------------- the mock functions on their own
UnitClassify ==
    /\ ufn = "none"
    /\ ufn' = "mock_classify"
    /\ uout' = mock_classify(uin)
    /\ UNCHANGED <<env, pc, n, lead, category, followup, results, processed,
                   errors, total_latency, calls, response, uin>>

UnitSummarize ==
    /\ ufn = "none"
    /\ ufn' = "mock_summarize"
    /\ uout' = mock_summarize(uin)
    /\ UNCHANGED <<env, pc, n, lead, category, followup, results, processed,
                   errors, total_latency, calls, response, uin>>

UnitInit ==
    /\ USE_OPENAI = FALSE
    /\ file_exists = FALSE
    /\ header = FullHeader
    /\ lines = << >>
    /\ pc = "unit"
    /\ n = 0
    /\ lead = BlankLead
    /\ category = EmptyStr
    /\ followup = EmptyStr
    /\ results = << >>
    /\ processed = 0
    /\ errors = 0
    /\ total_latency = 0
    /\ calls = << >>
    /\ response = NoResponse
    /\ uin \in UnitLeads
    /\ ufn = "none"
    /\ uout = EmptyStr

UnitNext == UnitClassify \/ UnitSummarize

UnitSpec == UnitInit /\ [][UnitNext]_vars

\* ====================================================== the properties
\* The file's data rows: its lines that hold at least one cell.
DataLines == SelectSeq(lines, LAMBDA l : l # << >>)

\* The cell of data line l under the column named k; "" when the header
\* lacks the column or the line ends before it.
FieldOf(l, k) ==
    IF \E i \in 1..Len(header) : header[i] = k /\ i <= Len(l)
    THEN l[CHOOSE i \in 1..Len(header) : header[i] = k /\ i <= Len(l)]
    ELSE EmptyStr

\* The column named k is missing for data line l.
Missing(l, k) == ~ \E i \in 1..Len(header) : header[i] = k /\ i <= Len(l)

SuccessFields == {"lead", "category", "followup", "ticket_summary", "latency_sec"}
ErrorFields == {"lead", "error", "trace"}
IsSuccess(item) == DOMAIN item = SuccessFields
IsError(item) == DOMAIN item = ErrorFields

\* v holds a character that is not whitespace.
HasText(v) == \E i \in 1..Len(Str(v)) : Str(v)[i] \notin Whitespace

EndsWith(s, e) == Len(s) >= Len(e) /\ SubSeq(s, Len(s) - Len(e) + 1, Len(s)) = e

\* The requests made for the i-th lead, in the order made.
CallsFor(i) == SelectSeq(calls, LAMBDA c : c.lead = i)
ReplyAt(cs, k) == IF k <= Len(cs) THEN cs[k].reply ELSE ServiceRaised
Called(cs, op) == \E k \in 1..Len(cs) : cs[k].op = op
ErrorCount(items) == Cardinality({i \in 1..Len(items) : IsError(items[i])})

\* ------------------------------------------------------------------- C1
\* C1: every response of POST /run reports processed + errors equal to the
\* number of data rows of the input file, and holds that many results.
C1_CountsMatchRows ==
    response.kind = "ok" =>
        /\ response.status.processed + response.status.errors = Len(DataLines)
        /\ Len(response.results) = Len(DataLines)

C1_Witness ==
    /\ response.kind = "ok"
    /\ response.status.processed = 1
    /\ response.status.errors = 1
    /\ Len(response.results) = 2

\* ------------------------------------------------------------------- C2
\* What one lead ends in, from that lead and the replies to its own requests
\* alone.
OutcomeOf(l, cs) ==
    IF ~USE_OPENAI
    THEN LET c == mock_classify(l)
         IN  [ok |-> TRUE, category |-> c,
              followup |-> IF c \in HotWarm THEN mock_followup(l) ELSE EmptyStr,
              ticket_summary |-> mock_summarize(l), error |-> ""]
    ELSE LET c == openai_classify(l, ReplyAt(cs, 1))
             f == IF c.ok /\ c.value \in HotWarm
                  THEN openai_followup(l, ReplyAt(cs, 2)) ELSE Return(EmptyStr)
             t == TicketStripped(l)
             k == IF c.ok /\ c.value \in HotWarm THEN 3 ELSE 2
             sm == IF t.ok /\ t.value # EmptyStr
                   THEN openai_summarize(l, ReplyAt(cs, k)) ELSE Return(EmptyStr)
             bad == IF ~c.ok THEN c ELSE IF ~f.ok THEN f ELSE IF ~t.ok THEN t ELSE sm
         IN  IF bad.ok
             THEN [ok |-> TRUE, category |-> c.value, followup |-> f.value,
                   ticket_summary |-> sm.value, error |-> ""]
             ELSE [ok |-> FALSE, category |-> EmptyStr, followup |-> EmptyStr,
                   ticket_summary |-> EmptyStr, error |-> bad.msg]

Reports(item, o) ==
    IF o.ok
    THEN /\ IsSuccess(item)
         /\ item.category = o.category
         /\ item.followup = o.followup
         /\ item.ticket_summary = o.ticket_summary
    ELSE /\ IsError(item)
         /\ item.error = o.error
         /\ item.error # ""
         /\ item.trace # << >>

\* C2: a lead whose classify, follow-up or summarize step raises gets an error
\* result with the message and a trace, and counts one error; the results
\* change only by one item being appended, and that item is what the lead's
\* own fields and the replies to its own requests decide, whatever happened to
\* the leads before it; the run goes on to the last row and answers.
C2_FailureIsolation ==
    /\ [](/\ errors = ErrorCount(results)
          /\ pc = "row" => Len(results) = n
          /\ pc = "done" => response # NoResponse
          /\ pc # "done" => ENABLED Next
          /\ response.kind = "ok" =>
                 /\ Len(response.results) = Len(rows)
                 /\ response.status.errors = ErrorCount(response.results))
    /\ [][results' # results =>
             /\ Len(results') = Len(results) + 1
             /\ SubSeq(results', 1, Len(results)) = results
             /\ n <= Len(rows)
             /\ Reports(results'[Len(results')],
                        OutcomeOf(MakeLead(rows[n]),
                                  SelectSeq(calls', LAMBDA c : c.lead = n)))]_vars

C2_Witness ==
    /\ response.kind = "ok"
    /\ Len(response.results) = 2
    /\ IsError(response.results[1])
    /\ IsSuccess(response.results[2])
    /\ response.status.errors = 1

\* ------------------------------------------------------------------- C3
\* C3: every result carries the success fields or the error fields, never
\* both and never neither.
C3_SuccessXorError ==
    \A i \in 1..Len(results) :
        /\ IsSuccess(results[i]) \/ IsError(results[i])
        /\ ~(IsSuccess(results[i]) /\ IsError(results[i]))

\* A lead whose classification came back and whose follow-up request raised.
C3_Witness ==
    \E i \in 1..Len(results) :
        LET cs == CallsFor(i)
        IN  /\ IsError(results[i])
            /\ Len(cs) = 2
            /\ ~cs[1].reply.raised
            /\ cs[2].op = "followup"
            /\ cs[2].reply.raised

\* ------------------------------------------------------------------- C4
\* C4 as stated: under the offline strategy the follow-up is non-empty iff the
\* category is Hot or Warm, and the summary is non-empty iff the ticket field
\* is non-empty, whitespace-only tickets included.
C4_AsStated ==
    ~USE_OPENAI =>
        \A i \in 1..Len(results) :
            /\ IsSuccess(results[i])
            /\ results[i].followup # EmptyStr <=> results[i].category \in HotWarm
            /\ results[i].ticket_summary # EmptyStr <=> results[i].lead.ticket # EmptyStr

\* C4 amended: under the offline strategy the follow-up is non-empty iff the
\* category is Hot or Warm, and the summary is non-empty iff the ticket field
\* holds a character that is not whitespace.
C4_OfflineNonEmpty ==
    ~USE_OPENAI =>
        \A i \in 1..Len(results) :
            /\ IsSuccess(results[i])
            /\ results[i].followup # EmptyStr <=> results[i].category \in HotWarm
            /\ results[i].ticket_summary # EmptyStr <=> HasText(results[i].lead.ticket)

C4_Witness ==
    /\ ~USE_OPENAI
    /\ \E i, j \in 1..Len(results) :
        /\ results[i].lead.ticket # EmptyStr
        /\ ~HasText(results[i].lead.ticket)
        /\ results[i].ticket_summary = EmptyStr
        /\ results[j].category \in HotWarm
        /\ results[j].followup # EmptyStr
        /\ HasText(results[j].lead.ticket)
        /\ results[j].ticket_summary # EmptyStr

\* ------------------------------------------------------------------- C5
HasHigh(l) == Contains(Lower(Str(l.interest)), <<"h","i","g","h">>)
HasMed(l) ==
    \/ Contains(Lower(Str(l.interest)), <<"m","e","d","i","u","m">>)
    \/ Contains(Lower(Str(l.interest)), <<"m","e","d">>)

\* C5 as stated: the offline classifier returns Hot when the interest contains
\* "high", Warm when it contains "medium" or "med", Cold for all other values;
\* always one of the three.
C5_AsStated ==
    ufn = "mock_classify" =>
        /\ uout \in Categories
        /\ HasHigh(uin) => uout = Hot
        /\ HasMed(uin) => uout = Warm
        /\ ~HasHigh(uin) /\ ~HasMed(uin) => uout = Cold

\* C5 amended: Hot when the interest contains "high"; Warm when it contains
\* "medium" or "med" and does not contain "high"; Cold for all other values;
\* always one of the three.
C5_ClassifyRules ==
    ufn = "mock_classify" =>
        /\ uout \in Categories
        /\ HasHigh(uin) => uout = Hot
        /\ HasMed(uin) /\ ~HasHigh(uin) => uout = Warm
        /\ ~HasHigh(uin) /\ ~HasMed(uin) => uout = Cold

C5_Witness ==
    /\ ufn = "mock_classify"
    /\ HasHigh(uin)
    /\ HasMed(uin)
    /\ uin.interest # Lower(uin.interest)
    /\ uout = Hot

\* ------------------------------------------------------------------- C6
\* C6 as stated: the offline summary is at most 123 characters long, is the
\* first 120 characters of the ticket plus the marker when the ticket is
\* longer than 120, and is a prefix of the ticket whenever it does not end
\* with the marker.
C6_AsStated ==
    ufn = "mock_summarize" =>
        LET ticket == Str(uin.ticket)
        IN  /\ Len(uout) <= SummaryLimit + Len(Ellipsis)
            /\ Len(ticket) > SummaryLimit => uout = Slice(ticket, SummaryLimit) \o Ellipsis
            /\ ~EndsWith(uout, Ellipsis) => IsPrefix(uout, ticket)

\* C6 amended: with t the ticket without its leading and trailing whitespace,
\* the offline summary is at most 123 characters long, is the first 120
\* characters of t plus the marker when t is longer than 120, and is a prefix
\* of t whenever it does not end with the marker.
C6_SummaryBounded ==
    ufn = "mock_summarize" =>
        LET ticket == Str(uin.ticket)
            t == Strip(ticket)
        IN  /\ Len(uout) <= SummaryLimit + Len(Ellipsis)
            /\ Len(t) > SummaryLimit => uout = Slice(t, SummaryLimit) \o Ellipsis
            /\ ~EndsWith(uout, Ellipsis) => IsPrefix(uout, t)

C6_Witness ==
    /\ ufn = "mock_summarize"
    /\ uin.ticket # None
    /\ uin.ticket # EmptyStr
    /\ uin.ticket[1] \in Whitespace
    /\ Len(Strip(uin.ticket)) > SummaryLimit
    /\ Len(uout) = SummaryLimit + Len(Ellipsis)

\* ------------------------------------------------------------------- C7
\* The first word of a completion, case-normalized, is one of the categories.
NamesCategory(content) ==
    \E w \in Categories : \E a \in 1..Len(content) : \E b \in a..Len(content) :
        /\ Capitalize(SubSeq(content, a, b)) = w
        /\ \A i \in 1..(a - 1) : content[i] \in Whitespace
        /\ b < Len(content) => content[b + 1] \in Whitespace

\* C7: whatever text the classification request returns, the empty and the
\* whitespace-only text included, the lead's category is one of Hot, Warm and
\* Cold, it is the offline classifier's when the first word is none of them,
\* and the lead gets no error result for it.
C7_ClassifyFallsBack ==
    USE_OPENAI =>
        \A i \in 1..Len(results) :
            LET cs == CallsFor(i)
                l == results[i].lead
            IN  (Len(cs) >= 1 /\ ~cs[1].reply.raised) =>
                    IF IsError(results[i])
                    \* the error is a later step's
                    THEN (Len(cs) >= 2 /\ cs[Len(cs)].reply.raised) \/ l.ticket = None
                    ELSE /\ results[i].category \in Categories
                         /\ ~NamesCategory(cs[1].reply.content)
                                => results[i].category = mock_classify(l)

\* ------------------------------------------------------------------- C8
\* The lead built from the i-th data row.
LeadOfRow(i) == MakeLead(DictRow(header, DataLines[i]))

\* C8: results[i].lead is the lead of the i-th data row, for failed and
\* succeeded leads alike, and no request for a lead is made before the result
\* of the lead before it has been appended.
C8_InputOrder ==
    /\ Len(results) <= Len(DataLines)
    /\ \A i \in 1..Len(results) : results[i].lead = LeadOfRow(i)
    /\ \A k \in 1..Len(calls) :
           /\ calls[k].lead >= 1
           /\ calls[k].lead <= Len(results) + 1
           /\ calls[k].lead = Len(results) + 1 => pc \in {"classify", "followup", "summarize"}
           /\ k > 1 => calls[k - 1].lead <= calls[k].lead
    /\ pc \in {"mock", "classify", "followup", "summarize"} => Len(results) = n - 1

C8_Witness ==
    /\ response.kind = "ok"
    /\ Len(response.results) = 2
    /\ response.results[1].lead # response.results[2].lead
    /\ IsSuccess(response.results[1])
    /\ IsError(response.results[2])
    /\ Len(CallsFor(1)) >= 2

\* ------------------------------------------------------------------- C9
OpRank(op) == CASE op = "classify" -> 1 [] op = "followup" -> 2 [] op = "summarize" -> 3

\* What C9 says of the requests cs made for the finished lead l, ticketGiven
\* being the reading of "the ticket field is non-empty".
CallOrder(l, cs, ticketGiven) ==
    LET c == openai_classify(l, ReplyAt(cs, 1))
        followupRaised == \E k \in 1..Len(cs) : cs[k].op = "followup" /\ cs[k].reply.raised
    IN  /\ Len(cs) >= 1
        /\ cs[1].op = "classify"
        /\ \A j, k \in 1..Len(cs) : j < k => OpRank(cs[j].op) < OpRank(cs[k].op)
        /\ Called(cs, "followup") <=> (c.ok /\ c.value \in HotWarm)
        /\ Called(cs, "summarize") <=> (ticketGiven /\ c.ok /\ ~followupRaised)
        /\ \A k \in 1..(Len(cs) - 1) : ~cs[k].reply.raised
        /\ ~c.ok => Len(cs) = 1

\* C9 as stated, for the leads whose ticket field is a string: classify is
\* requested once and first; the follow-up iff classify returned Hot or Warm;
\* the summary iff the ticket field is non-empty and no earlier step raised;
\* nothing is requested after a step raised and nothing twice.
C9_AsStated ==
    USE_OPENAI =>
        \A i \in 1..Len(results) :
            LET l == results[i].lead
            IN  l.ticket # None => CallOrder(l, CallsFor(i), l.ticket # EmptyStr)

\* C9 amended: as stated, with the summary requested iff the ticket field is a
\* string holding a character that is not whitespace and no earlier step
\* raised.
C9_CallOrder ==
    USE_OPENAI =>
        \A i \in 1..Len(results) :
            LET l == results[i].lead
            IN  CallOrder(l, CallsFor(i), l.ticket # None /\ HasText(l.ticket))

C9_Witness ==
    /\ USE_OPENAI
    /\ \E i \in 1..Len(results) :
        LET l == results[i].lead
            cs == CallsFor(i)
        IN  /\ IsSuccess(results[i])
            /\ l.ticket # EmptyStr
            /\ l.ticket # None
            /\ ~HasText(l.ticket)
            /\ Called(cs, "followup")
            /\ ~Called(cs, "summarize")

\* ------------------------------------------------------------------ C10
\* C10: each of the six fields of a lead is a string, the empty string when
\* its column is missing for the row, and a row with a missing column neither
\* fails for that nor gets a summary.
C10_MissingIsEmpty ==
    \A i \in 1..Len(results) :
        LET line == DataLines[i]
            l == results[i].lead
        IN  /\ \A k \in Columns : l[k] # None /\ l[k] = FieldOf(line, k)
            /\ Missing(line, "ticket") =>
                   /\ IsSuccess(results[i]) => results[i].ticket_summary = EmptyStr
                   /\ IsError(results[i]) =>
                          ~OutcomeOf([l EXCEPT !.ticket = EmptyStr], CallsFor(i)).ok
====
